---- MODULE Spec2Model ----
(***************************************************************************)
(* Model of the accessibility health checker: the BrowserManager session   *)
(* (browser.ts), the AccessibilityHealthChecker orchestrator               *)
(* (health-checker.ts) and the page check it drives.                       *)
(*                                                                         *)
(* Every `await` of the source is a suspension point: an operation is      *)
(* split into one action per await, and each action runs the synchronous   *)
(* code that follows the await up to the next one.                         *)
(***************************************************************************)
EXTENDS Integers, Sequences, FiniteSets, TLC

\* ---------------------------------------------------------------- bounds
MaxCalls == 2        \* calls of one orchestrator in progress at a time
MaxRuns == 2         \* calls a caller that awaits each call issues
MaxUrls == 3         \* longest URL list handed to checkUrls
MaxOverlapUrls == 1  \* longest URL list of a call that overlaps another
MaxConcurrent == 2   \* largest config.concurrent the constructor is given
MaxEngines == 2      \* engine processes the host can start
MaxOps == 5          \* operations a direct BrowserManager client issues
MaxCliUrls == 2      \* URLs on the command line
MaxMixed == 4        \* issues of any severity handed to calculateScore
MaxErrors == 11      \* further errors that follow them in the sequence
MaxItems == 5        \* longest array handed to chunkArray on its own
MaxChunk == 3        \* largest chunkSize handed to chunkArray on its own
MaxSpin == 3         \* iterations of a loop without end that are told apart

Calls == 1..MaxCalls
Engines == 1..MaxEngines
Urls == 1..MaxUrls   \* URL strings are opaque to the orchestrator
TaskIds == 1..MaxUrls

\* ------------------------------------------------------------ vocabulary
\* CheckType enum, in declaration order
CheckType ==
  <<"alt-text", "color-contrast", "heading-structure", "aria-attributes",
    "keyboard-navigation", "form-labels", "focus-indicators",
    "landmark-regions">>

\* WcagLevel and Severity enums, in declaration order
WcagLevel == <<"A", "AA", "AAA">>
Severity == <<"error", "warning", "info">>

\* the null of a table entry
null == "null"

\* the checker registry, in registry order
ALL_CHECKERS ==
  <<"alt-text", "color-contrast", "heading-structure", "aria-attributes",
    "form-labels">>

Range(s) == {s[k] : k \in 1..Len(s)}

RECURSIVE SeqSum(_)
SeqSum(s) == IF s = <<>> THEN 0 ELSE Head(s) + SeqSum(Tail(s))

RECURSIVE Flatten(_)
Flatten(ss) == IF ss = <<>> THEN <<>> ELSE Head(ss) \o Flatten(Tail(ss))

Min(a, b) == IF a < b THEN a ELSE b

\* ----------------------------------------------------------------- state
VARIABLES
  browser,   \* BrowserManager.browser: 0 is null, else an engine id
  context,   \* BrowserManager.context: 0 is null, else a context id
  engine,    \* engine id -> "none" | "live" | "closed"  (the processes)
  ctx,       \* context id -> "none" | "live" | "closed"; context k lives
             \* in engine k (launch creates one context per engine)
  config,    \* AccessibilityHealthChecker.config
  calls,     \* call -> the activation record of one public call
  tasks,     \* call -> task -> the per-URL async closure and its page
  ops,       \* operations issued so far by a direct BrowserManager client
  cli,       \* the command-line process: its position and its exit code
  unit       \* a pure function applied on its own: arguments and result

vars ==
  <<browser, context, engine, ctx, config, calls, tasks, ops, cli, unit>>
mgrVars == <<browser, context, engine, ctx>>

\* DEFAULT_CONFIG, the fields the orchestrator reads
DEFAULT_CONFIG ==
  [wcagLevel |-> "AA",
   concurrent |-> 3,
   enabled |-> Range(CheckType),
   disabled |-> {},
   format |-> {"console"}]

\* { ...DEFAULT_CONFIG, ...config }
MergeConfig(base, partial) ==
  [f \in DOMAIN base |-> IF f \in DOMAIN partial THEN partial[f] ELSE base[f]]

\* the partial configurations handed to the constructor
UserConfigs ==
  {[concurrent |-> n, format |-> {"console", "json"}] :
     n \in 1..MaxConcurrent}

NoResult == [kind |-> "none"]

\* one async closure and the page it requests:
\*   pc      the await it is suspended at ("none": not created, "done":
\*           settled, "held": its page was handed to a direct client)
\*   ctx     the context its page was requested in
\*   page    "none" | "open" | "closed", the page in the engine
\*   closes  how many times the closure called page.close()
\*   result  what the closure settles with
\*   gotos   how many times page.goto was called for it
\*   waits   how many times waitForAccessibilityTree was called for it
\*   invoked the checkers whose check() was called, in call order
\*   cfg     the config object handed to those checkers
\*   arrived the checkers whose check() has settled, in the order they
\*           settled, each with what its page.evaluate did (recorded where
\*           the checkers are followed one by one)
IdleTask == [pc |-> "none", ctx |-> 0, page |-> "none", closes |-> 0,
             gotos |-> 0, waits |-> 0, invoked |-> <<>>, cfg |-> NoResult,
             arrived |-> <<>>, result |-> NoResult]

\* the activation of one public call:
\*   kind, urls        the method called and its argument
\*   pc                the await it is suspended at
\*   chunks, b         the chunks of line 55 and the number of the current one
\*   i                 the loop variable of chunkArray while its loop runs
\*   pageReports       the local of line 52
\*   formats           the local of line 172
\*   target            the engine or context its pending launch/close acts on
\*   result            what the call returns or rejects with once pc = "done"
\* and, recorded for the properties only:
\*   arrival           the tasks of the current chunk in settlement order
\*   launched          the call invoked launch()
\*   reporters         the reporters whose generate() was invoked
\*   teardown          the close() calls issued on context and engine
\*   pre               <<browser, context>> when the call was made
\*   computed          the report as checkUrls built it at lines 77-87
IdleCall ==
  [kind |-> "idle", pc |-> "idle", urls |-> <<>>, chunks |-> <<>>, b |-> 0,
   i |-> 0,
   pageReports |-> <<>>, arrival |-> <<>>, target |-> 0,
   launched |-> FALSE, formats |-> {}, reporters |-> {}, teardown |-> <<>>,
   pre |-> <<0, 0>>, computed |-> NoResult, result |-> NoResult]

\* the command-line process before it is started
IdleCli == [pc |-> "idle", argv |-> NoResult, urls |-> <<>>, exit |-> -1]

\* no function applied
IdleUnit == [fn |-> "none", args |-> <<>>, ret |-> NoResult]

\* a query that never reports the session as launched
NeverLaunched == FALSE

\* BrowserManager.isLaunched
isLaunched == browser # 0 /\ context # 0

Init ==
  /\ browser = 0
  /\ context = 0
  /\ engine = [k \in Engines |-> "none"]
  /\ ctx = [k \in Engines |-> "none"]
  /\ config \in {MergeConfig(DEFAULT_CONFIG, p) : p \in UserConfigs}
  /\ calls = [c \in Calls |-> IdleCall]
  /\ tasks = [c \in Calls |-> [i \in TaskIds |-> IdleTask]]
  /\ ops = 0
  /\ cli = IdleCli
  /\ unit = IdleUnit

\* ------------------------------------------------------------- issues
\* WCAG_REFERENCES, constants.ts
WCAG_REFERENCES ==
  [t \in Range(CheckType) |-> [l \in Range(WcagLevel) |->
     CASE t = "alt-text" -> "1.1.1"
       [] t = "color-contrast" ->
            IF l = "A" THEN null ELSE IF l = "AA" THEN "1.4.3" ELSE "1.4.6"
       [] t = "heading-structure" -> "1.3.1"
       [] t = "aria-attributes" -> "4.1.2"
       [] t = "keyboard-navigation" ->
            IF l = "AAA" THEN "2.1.3" ELSE "2.1.1"
       [] t = "form-labels" -> "1.3.1"
       [] t = "focus-indicators" -> "2.4.7"
       [] t = "landmark-regions" -> "1.3.1"]]

\* a lookup that ignores the level and reads the AA column
ReferenceAtAA(type, level) == WCAG_REFERENCES[type]["AA"]

getWcagReference(type, level) == WCAG_REFERENCES[type][level]

getWcagUrl(reference) ==
  "https://www.w3.org/WAI/WCAG21/Understanding/" \o reference \o ".html"

\* what `x || y` and `if (x)` take for false, among strings and null
Falsy(v) == v = null \/ v = ""

\* createAccessibilityIssue without element, location and suggestedFix,
\* which it copies when given, and without the random id
createAccessibilityIssue(type, severity, wcagLevel, message, description) ==
  LET wcagReference == getWcagReference(type, wcagLevel)
      issue == [type |-> type,
                severity |-> severity,
                wcagLevel |-> wcagLevel,
                wcagReference |->
                  IF Falsy(wcagReference) THEN "N/A" ELSE wcagReference,
                message |-> message,
                description |-> description]
  IN IF ~Falsy(wcagReference)
     THEN issue @@ [helpUrl |-> getWcagUrl(wcagReference)]
     ELSE issue

\* ----------------------------------------------------------- checkers
\* the severity a checker gives a finding of its page.evaluate: the
\* heading checker knows three severities, the others two
SeverityOf(type, found) ==
  IF found = "error" THEN "error"
  ELSE IF type = "heading-structure"
       THEN IF found = "warning" THEN "warning" ELSE "info"
       ELSE "warning"

\* every checker stamping the configured target level
ConfiguredLevel(type, cfg) == cfg.wcagLevel

\* the wcagLevel argument a checker passes to createAccessibilityIssue
LevelOf(type, cfg) ==
  IF type = "color-contrast" THEN cfg.wcagLevel ELSE "A"

\* check(page, config) after page.evaluate returned `found`
CheckerIssues(type, found, cfg) ==
  [k \in 1..Len(found) |->
     createAccessibilityIssue(type, SeverityOf(type, found[k].severity),
                              LevelOf(type, cfg), found[k].message,
                              found[k].description)]

\* ------------------------------------------------------- page content
\* one entry of the array a checker's page.evaluate returns
Finding(severity, message) ==
  [severity |-> severity, message |-> message, description |-> "why"]

Quiet == [throws |-> FALSE, found |-> <<>>]

Finds(found) == [throws |-> FALSE, found |-> found]

\* what each registered checker's page.evaluate does on a page: it returns
\* its findings or it throws
CleanPage == [t \in Range(ALL_CHECKERS) |-> Quiet]

FlawedPage ==
  [CleanPage EXCEPT
     !["alt-text"] = Finds(<<Finding("error", "no alt")>>),
     !["color-contrast"] = Finds(<<Finding("warning", "ratio 3.9")>>),
     !["form-labels"] = Finds(<<Finding("error", "no label")>>)]

BrokenPage ==
  [FlawedPage EXCEPT !["color-contrast"] = [throws |-> TRUE, found |-> <<>>]]

PageContents == {CleanPage, FlawedPage, BrokenPage}

\* a page whose text contrast is below 3:1 in one place and whose headings
\* are long, numeric and skip a level
ContrastPage ==
  [CleanPage EXCEPT
     !["color-contrast"] = Finds(<<Finding("error", "ratio 2.1"),
                                   Finding("warning", "ratio 4.0")>>),
     !["heading-structure"] = Finds(<<Finding("info", "long heading"),
                                      Finding("warning", "numeric"),
                                      Finding("error", "skipped")>>)]

\* a page with a single low contrast warning
FaintPage ==
  [CleanPage EXCEPT
     !["color-contrast"] = Finds(<<Finding("warning", "ratio 4.0")>>)]

AuditContents == PageContents \cup {ContrastPage, FaintPage}

\* every checker's page.evaluate rejects on a page that has been closed
ClosedPage == [t \in Range(ALL_CHECKERS) |-> [throws |-> TRUE, found |-> <<>>]]

\* ------------------------------------------------------------- results
Failure(type, url) == [kind |-> "error", type |-> type, url |-> url]

\* what a function returns when it does not throw
Value(v) == [kind |-> "value", value |-> v]

\* createPage: 'Browser context not initialized. Call launch() first.'
NotInitialized == Failure("NotInitialized", 0)
\* checkPage: `Failed to load ${url}: ${error}`
NavigationError(url, error) ==
  [kind |-> "error", type |-> "Navigation", url |-> url,
   message |-> <<"Failed to load ", url, ": ", error>>]
\* a rejection of Playwright that the source passes on unwrapped; origin is
\* the URL of the page check it was raised in (0: not in a page check)
Rejection(type, origin) == Failure(type, origin)

\* Math.floor of the fraction num / den (den > 0)
MathFloor(num, den) == num \div den

\* Math.round of the fraction num / den (den > 0): the nearest integer, a
\* tie going up
MathRound(num, den) == (2 * num + den) \div (2 * den)

Max(a, b) == IF a > b THEN a ELSE b

weights == [error |-> 10, warning |-> 5, info |-> 1]

\* a score that is not clamped at zero
Unclamped(floor, score) == score

\* calculateScore, line 72: Math.max(0, 100 - totalPenalty)
Clamp(floor, score) == Max(floor, score)

\* calculateScore, utils.ts
calculateScore(issues) ==
  IF Len(issues) = 0 THEN 100
  ELSE LET totalPenalty ==
             SeqSum([k \in 1..Len(issues) |-> weights[issues[k].severity]])
           score == Clamp(0, 100 - totalPenalty)
       IN MathRound(score, 1)

\* allIssues.filter(issue => issue.severity === severity).length
CountSeverity(issues, severity) ==
  Len(SelectSeq(issues, LAMBDA issue : issue.severity = severity))

\* allIssues.filter(issue => issue.type === type).length
CountType(issues, type) ==
  Len(SelectSeq(issues, LAMBDA issue : issue.type = type))

\* a test that also fails a level for the errors of the levels below it
FailsUpTo(issue, level) ==
  /\ issue.severity = "error"
  /\ \E i, j \in 1..Len(WcagLevel) :
       WcagLevel[i] = issue.wcagLevel /\ WcagLevel[j] = level /\ i <= j

\* isWcagCompliant, the predicate of lines 158-160
FailsLevel(issue, level) ==
  issue.wcagLevel = level /\ issue.severity = "error"

isWcagCompliant(issues, level) ==
  ~ \E k \in 1..Len(issues) : FailsLevel(issues[k], level)

\* the types of the checkers in the registry only
RegisteredTypes == Range(ALL_CHECKERS)

\* Object.values(CheckType), line 129
CountedTypes == Range(CheckType)

\* checkPage, lines 123-154
PageHealthReport(url, allIssues) ==
  [kind |-> "report",
   url |-> url,
   totalIssues |-> Len(allIssues),
   issuesBySeverity |->
     [s \in Range(Severity) |-> CountSeverity(allIssues, s)],
   issuesByType |->
     [t \in CountedTypes |-> CountType(allIssues, t)],
   wcagCompliance |->
     [l \in Range(WcagLevel) |-> isWcagCompliant(allIssues, l)],
   issues |-> allIssues,
   score |-> calculateScore(allIssues)]

\* a filter in which the enabled list wins over the disabled one
EnabledWins(type, cfg) == type \in cfg.enabled

\* checkPage, lines 112-113: the predicate of the filter
Runs(type, cfg) == type \in cfg.enabled /\ type \notin cfg.disabled

\* checkPage, lines 111-114: filter the registry
enabledCheckers == SelectSeq(ALL_CHECKERS, LAMBDA t : Runs(t, config))

\* lines 116-154: Promise.all(checkers.map(check)) followed by flatMap:
\* rejects when a check() rejects, else the report over the issue sequences
\* joined in the order of `checkers`
RunCheckers(url, checkers, cfg, content) ==
  IF \E k \in 1..Len(checkers) : content[checkers[k]].throws
  THEN Rejection("Checker", url)
  ELSE PageHealthReport(url,
         Flatten([k \in 1..Len(checkers) |->
                    CheckerIssues(checkers[k], content[checkers[k]].found,
                                  cfg)]))

\* -------------------------------------------------------------- chunks
\* a loop that moves on by one entry whatever the chunk size
StepsByOne(i, chunkSize) == i + 1

\* chunkArray, line 165: i += chunkSize
NextIndex(i, chunkSize) == i + chunkSize

\* chunkArray, lines 165-167, from index i on, for chunkSize >= 1
RECURSIVE ChunkFrom(_, _, _)
ChunkFrom(array, chunkSize, i) ==
  IF i < Len(array)
  THEN <<SubSeq(array, i + 1, Min(i + chunkSize, Len(array)))>>
         \o ChunkFrom(array, chunkSize, NextIndex(i, chunkSize))
  ELSE <<>>

\* chunkArray, for chunkSize >= 1
chunkArray(array, chunkSize) == ChunkFrom(array, chunkSize, 0)

\* the loop of chunkArray comes to an end: i reaches array.length
LoopEnds(array, chunkSize) == chunkSize >= 1 \/ Len(array) = 0

\* Array.prototype.slice(start, end): a negative index counts from the end
\* of the array
slice(array, start, end) ==
  LET len == Len(array)
      from == IF start < 0 THEN Max(len + start, 0) ELSE Min(start, len)
      to == IF end < 0 THEN Max(len + end, 0) ELSE Min(end, len)
  IN IF from < to THEN SubSeq(array, from + 1, to) ELSE <<>>

\* the positions in the URL list of the URLs of chunk b
ChunkIdx(chunks, b) ==
  LET off == SeqSum([k \in 1..(b - 1) |-> Len(chunks[k])])
  IN [j \in 1..Len(chunks[b]) |-> off + j]

\* ------------------------------------------- BrowserManager, synchronous
\* a continuation returns the activation record and the tasks of its call
K(call, tk) == [call |-> call, tk |-> tk]

Done(call, res) == [call EXCEPT !.pc = "done", !.result = res]

\* a close that does not test the engine handle
AlwaysHoldsBrowser(b) == TRUE

\* close, line 61: if (this.browser)
HoldsBrowser(b) == b # 0

\* close, lines 61-64, up to the await of browser.close()
CloseBrowserPart(b, call) ==
  IF HoldsBrowser(b)
  THEN IF b = 0
       THEN Done(call, Rejection("TypeError", 0))
       ELSE [call EXCEPT !.pc = "closeBrowser", !.target = b,
                         !.teardown = Append(@, "engine")]
  ELSE [call EXCEPT !.pc = "done"]

\* close, lines 56-57, up to the await of context.close(); res is what the
\* caller of close() returns or rethrows once close() has resolved
CloseInvoke(b, cx, call, res) ==
  LET c1 == [call EXCEPT !.result = res]
  IN IF cx # 0
     THEN [c1 EXCEPT !.pc = "closeContext", !.target = cx,
                     !.teardown = Append(@, "context")]
     ELSE CloseBrowserPart(b, c1)

\* a guard that tests the engine handle instead of the context
BrowserMissing(b, cx) == b = 0

\* createPage, line 38: if (!this.context)
ContextMissing(b, cx) == cx = 0

\* createPage up to the await of context.newPage(), for task i
CreatePageInvoke(b, cx, t) ==
  IF ContextMissing(b, cx)
  THEN [t EXCEPT !.pc = "done", !.result = NotInitialized]
  ELSE IF cx = 0
       THEN [t EXCEPT !.pc = "done", !.result = Rejection("TypeError", 0)]
       ELSE [t EXCEPT !.pc = "newPage", !.ctx = cx]

\* ------------------------------------------------ checkUrls, synchronous
\* a teardown placed at the end of the try block instead
ClosesOnSuccess(res) == res.kind # "error"

\* finally of checkUrls, lines 93-95: runs whatever the try block did
FinallyCloses(res) == TRUE

LeaveTry(b, cx, call, res) ==
  IF FinallyCloses(res) THEN CloseInvoke(b, cx, call, res)
  ELSE Done(call, res)

\* lines 71-90: the aggregate report, and generateReports up to its first
\* await (formats is read from this.config before it)
Aggregate(call) ==
  LET pageReports == call.pageReports
      totalIssues ==
        SeqSum([k \in 1..Len(pageReports) |-> pageReports[k].totalIssues])
      overallScore ==
        IF Len(pageReports) > 0
        THEN MathRound(SeqSum([k \in 1..Len(pageReports) |->
                                 pageReports[k].score]),
                       Len(pageReports))
        ELSE 100
      report == [kind |-> "report",
                 summary |-> [totalPages |-> Len(pageReports),
                              totalIssues |-> totalIssues,
                              overallScore |-> overallScore],
                 pages |-> pageReports,
                 configuration |-> config]
  IN [call EXCEPT !.pc = "generateReports",
                  !.formats = config.format,
                  !.computed = report,
                  !.result = report]

\* lines 57-67: chunk.map(async url => ...) runs every closure of chunk b up
\* to its first await, then checkUrls awaits Promise.all
BatchStart(b, cx, call, tk, n) ==
  IF n > Len(call.chunks)
  THEN \* line 72 reads page.totalIssues: a TypeError on an entry that is
       \* not a page report (undefined), thrown inside the try block
       IF \E k \in 1..Len(call.pageReports) :
            call.pageReports[k].kind # "report"
       THEN K(LeaveTry(b, cx, call, Rejection("TypeError", 0)), tk)
       ELSE K(Aggregate(call), tk)
  ELSE
    LET idx == ChunkIdx(call.chunks, n)
        tk1 == [i \in TaskIds |->
                  IF i \in Range(idx) THEN CreatePageInvoke(b, cx, tk[i])
                  ELSE tk[i]]
        c1 == [call EXCEPT !.pc = "batch", !.b = n, !.arrival = <<>>]
    IN IF tk1[idx[1]].pc = "done"
       THEN K(LeaveTry(b, cx, c1, tk1[idx[1]].result), tk1)
       ELSE K(c1, tk1)

\* a join that goes on as soon as one promise of the chunk has resolved
ChunkSettledAny(idx, tk) == \E k \in 1..Len(idx) : tk[idx[k]].pc = "done"

\* Promise.all resolves once every promise of the chunk has resolved
ChunkSettled(idx, tk) == \A k \in 1..Len(idx) : tk[idx[k]].pc = "done"

\* results pushed as each closure settles
ArrivalOrder(idx, arrival) == arrival

\* Promise.all resolves to the results in the order of its argument
PromiseAllOrder(idx, arrival) == idx

\* a join that keeps going when a closure rejects
ChunkNeverRejects(res) == FALSE

\* Promise.all rejects as soon as one of its promises rejects
ChunkRejects(res) == res.kind = "error"

\* the closure of task i has settled with res: what its caller does next
TaskSettled(b, cx, call, tk, i, res) ==
  LET tk1 == [tk EXCEPT ![i].pc = "done", ![i].result = res]
  IN CASE call.kind = "checkUrl" /\ call.pc = "page" ->
            K(Done(call, res), tk1)
       [] call.kind = "createPage" /\ call.pc = "page" ->
            K(Done(call, res), tk1)
       [] call.kind = "checkUrls" /\ call.pc = "batch"
            /\ i \in Range(ChunkIdx(call.chunks, call.b)) ->
            LET idx == ChunkIdx(call.chunks, call.b)
                c1 == [call EXCEPT !.arrival = Append(@, i)]
            IN IF ChunkRejects(res)
               THEN K(LeaveTry(b, cx, c1, res), tk1)
               ELSE IF ChunkSettled(idx, tk1)
               THEN LET order == PromiseAllOrder(idx, c1.arrival)
                        c2 == [c1 EXCEPT !.pageReports =
                                 @ \o [k \in 1..Len(order) |->
                                         tk1[order[k]].result]]
                    IN BatchStart(b, cx, c2, tk1, call.b + 1)
               ELSE K(c1, tk1)
       [] OTHER -> K(call, tk1)

\* a chunk size that is the default, whatever was configured
DefaultChunkSize(cfg) == DEFAULT_CONFIG.concurrent

\* checkUrls, line 55: the chunk size is this.config.concurrent
ChunkSize(cfg) == cfg.concurrent

\* what runs when launch() has resolved (or was not needed)
AfterLaunch(b, cx, call, tk) ==
  CASE call.kind = "checkUrls" ->
         \* line 55
         IF LoopEnds(call.urls, ChunkSize(config))
         THEN LET c1 == [call EXCEPT
                           !.chunks = chunkArray(call.urls, ChunkSize(config))]
              IN BatchStart(b, cx, c1, tk, 1)
         ELSE \* the loop of lines 165-167 is entered and is not left
              K([call EXCEPT !.pc = "chunkArray", !.i = 0], tk)
    [] call.kind \in {"checkUrl", "createPage"} ->
         \* checkUrl line 35
         LET t == CreatePageInvoke(b, cx, tk[1])
             tk1 == [tk EXCEPT ![1] = t]
         IN IF t.pc = "done" THEN K(Done(call, t.result), tk1)
            ELSE K([call EXCEPT !.pc = "page"], tk1)
    [] OTHER -> K(Done(call, [kind |-> "void"]), tk)

\* lines 31-33 and 47-49: if (!isLaunched()) await launch(config)
Enter(c, kind, urls) ==
  LET c0 == [IdleCall EXCEPT !.kind = kind, !.urls = urls,
                             !.pre = <<browser, context>>]
  IN IF ~isLaunched
     THEN /\ calls' = [calls EXCEPT
                         ![c] = [c0 EXCEPT !.pc = "launch",
                                           !.launched = TRUE]]
          /\ tasks' = [tasks EXCEPT ![c] = [i \in TaskIds |-> IdleTask]]
     ELSE LET k == AfterLaunch(browser, context, c0,
                               [i \in TaskIds |-> IdleTask])
          IN /\ calls' = [calls EXCEPT ![c] = k.call]
             /\ tasks' = [tasks EXCEPT ![c] = k.tk]

\* call c has not been issued yet, and the calls before it have
Fresh(c) ==
  /\ calls[c].pc = "idle"
  /\ IF c = 1 THEN TRUE ELSE calls[c - 1].pc # "idle"

\* the previous call has returned and the closures it left behind have
\* settled (they touch nothing but their own page, which the teardown of
\* their context has closed already)
Quiescent(c) ==
  /\ calls[c].pc \in {"idle", "done"}
  /\ \A i \in TaskIds : tasks[c][i].pc \in {"none", "done", "held"}

\* AccessibilityHealthChecker.checkUrl(url)
checkUrl(c, url) ==
  /\ Enter(c, "checkUrl", <<url>>)
  /\ ops' = ops + 1
  /\ UNCHANGED <<mgrVars, config, cli, unit>>

\* AccessibilityHealthChecker.checkUrls(urls)
checkUrls(c, urls) ==
  /\ Enter(c, "checkUrls", urls)
  /\ ops' = ops + 1
  /\ UNCHANGED <<mgrVars, config, cli, unit>>

\* AccessibilityHealthChecker.configure(config)
configure(partial) ==
  /\ config' = MergeConfig(config, partial)
  /\ UNCHANGED <<mgrVars, calls, tasks, ops, cli, unit>>

\* chunkArray, lines 165-167, with a chunkSize of 0 or less: one more turn
\* of a loop whose i never reaches array.length. The loop is synchronous:
\* nothing else of the process runs meanwhile, and checkUrls neither
\* returns nor rejects. Turns after the first MaxSpin are not told apart.
ChunkArrayLoop(c) ==
  /\ calls[c].pc = "chunkArray"
  /\ calls[c].i < Len(calls[c].urls)
  /\ IF Len(calls[c].chunks) < MaxSpin
     THEN calls' = [calls EXCEPT
                      ![c].chunks =
                         Append(@, slice(calls[c].urls, calls[c].i,
                                         calls[c].i + ChunkSize(config))),
                      ![c].i = NextIndex(@, ChunkSize(config))]
     ELSE UNCHANGED calls
  /\ UNCHANGED <<mgrVars, config, tasks, ops, cli, unit>>

\* --------------------------------------------------------- launch steps
FreeEngines == {k \in Engines : engine[k] = "none"}

\* chromium.launch settles (line 10), then newContext is requested
LaunchSettle(c) ==
  /\ calls[c].pc = "launch"
  /\ \/ /\ FreeEngines # {}
        /\ LET k == CHOOSE x \in FreeEngines : \A y \in FreeEngines : x <= y
           IN /\ engine' = [engine EXCEPT ![k] = "live"]
              /\ browser' = k
              /\ calls' = [calls EXCEPT ![c].pc = "newContext",
                                        ![c].target = k]
        /\ UNCHANGED <<context, ctx, tasks>>
     \/ /\ calls' = [calls EXCEPT
                       ![c] = Done(@, Rejection("Launch", 0))]
        /\ UNCHANGED <<mgrVars, tasks>>
  /\ UNCHANGED <<config, ops, cli, unit>>

\* browser.newContext settles (line 30); launch returns to its caller
NewContextSettle(c) ==
  /\ calls[c].pc = "newContext"
  /\ LET k == calls[c].target
     IN \/ /\ engine[k] = "live"
           /\ ctx' = [ctx EXCEPT ![k] = "live"]
           /\ context' = k
           /\ LET r == AfterLaunch(browser, k, calls[c], tasks[c])
              IN /\ calls' = [calls EXCEPT ![c] = r.call]
                 /\ tasks' = [tasks EXCEPT ![c] = r.tk]
           /\ UNCHANGED <<browser, engine>>
        \/ /\ calls' = [calls EXCEPT
                          ![c] = Done(@, Rejection("NewContext", 0))]
           /\ UNCHANGED <<mgrVars, tasks>>
  /\ UNCHANGED <<config, ops, cli, unit>>

\* ----------------------------------------------------------- page steps
\* the task's continuation runs with the manager as it is now
Settle(c, i, tk, res) ==
  LET r == TaskSettled(browser, context, calls[c], tk, i, res)
  IN /\ calls' = [calls EXCEPT ![c] = r.call]
     /\ tasks' = [tasks EXCEPT ![c] = r.tk]

\* a page released only when its check returned
ReleasesOnSuccess(res) == res.kind = "report"

\* finally { await page.close() } of checkUrl and of the chunk closure
ReleasesPage(res) == TRUE

\* checkPage has settled with res, the tasks of the call being tk: the
\* finally block of its caller
ReleaseFrom(c, i, tk, res) ==
  IF ReleasesPage(res)
  THEN /\ tasks' = [tasks EXCEPT ![c] = [tk EXCEPT ![i].pc = "closing",
                                                   ![i].closes = @ + 1,
                                                   ![i].result = res]]
       /\ UNCHANGED calls
  ELSE Settle(c, i, tk, res)

Release(c, i, res) == ReleaseFrom(c, i, tasks[c], res)

\* context.newPage settles (line 42 of browser.ts)
NewPageSettle(c, i) ==
  /\ tasks[c][i].pc = "newPage"
  /\ IF ctx[tasks[c][i].ctx] = "live"
     THEN /\ tasks' = [tasks EXCEPT ![c][i].pc = "initScript",
                                    ![c][i].page = "open"]
          /\ UNCHANGED calls
     ELSE Settle(c, i, tasks[c], Rejection("TargetClosed", calls[c].urls[i]))
  /\ UNCHANGED <<mgrVars, config, ops, cli, unit>>

\* page.addInitScript settles (line 45); createPage returns the page and
\* checkPage requests the navigation
InitScriptSettle(c, i) ==
  /\ tasks[c][i].pc = "initScript"
  /\ IF tasks[c][i].page = "open"
     THEN IF calls[c].kind = "createPage"
          THEN /\ tasks' = [tasks EXCEPT ![c][i].pc = "held"]
               /\ calls' = [calls EXCEPT ![c] = Done(@, [kind |-> "page"])]
          ELSE /\ tasks' = [tasks EXCEPT ![c][i].pc = "goto",
                                         ![c][i].gotos = @ + 1]
               /\ UNCHANGED calls
     ELSE Settle(c, i, tasks[c], Rejection("TargetClosed", calls[c].urls[i]))
  /\ UNCHANGED <<mgrVars, config, ops, cli, unit>>

\* what page.goto rejects with
GotoError(page) ==
  IF page = "open" THEN "net::ERR_NAME_NOT_RESOLVED" ELSE "Target closed"

\* a navigation that is tried again once when it fails
GivesUpOnSecond(gotos) == gotos >= 2

\* checkPage, lines 103-105: the catch block throws, whatever the attempt
GivesUp(gotos) == TRUE

\* page.goto settles (lines 101-105)
GotoSettle(c, i) ==
  /\ tasks[c][i].pc = "goto"
  /\ \/ /\ tasks[c][i].page = "open"
        /\ tasks' = [tasks EXCEPT ![c][i].pc = "stabilize",
                                  ![c][i].waits = @ + 1]
        /\ UNCHANGED calls
     \/ IF GivesUp(tasks[c][i].gotos)
        THEN Release(c, i, NavigationError(calls[c].urls[i],
                                           GotoError(tasks[c][i].page)))
        ELSE /\ tasks' = [tasks EXCEPT ![c][i].gotos = @ + 1]
             /\ UNCHANGED calls
  /\ UNCHANGED <<mgrVars, config, ops, cli, unit>>

\* a stabilization failure wrapped like a navigation failure
WrappedAsNavigation(url) == NavigationError(url, "Timeout 10000ms exceeded")

\* checkPage, lines 107-108: the await of waitForAccessibilityTree is
\* outside the try block of line 101, what it rejects with is passed on
StabilizationError(url) == Rejection("Stabilization", url)

\* analyzer.waitForAccessibilityTree settles (line 108); the enabled
\* checkers are started
StabilizeSettle(c, i) ==
  /\ tasks[c][i].pc = "stabilize"
  /\ \/ /\ tasks[c][i].page = "open"
        /\ tasks' = [tasks EXCEPT ![c][i].pc = "checkers",
                                  ![c][i].invoked = enabledCheckers,
                                  ![c][i].cfg = config]
        /\ UNCHANGED calls
     \/ Release(c, i, StabilizationError(calls[c].urls[i]))
  /\ UNCHANGED <<mgrVars, config, ops, cli, unit>>

\* Promise.all of the checkers settles (lines 116-154) on a page whose
\* content is one of `contents`
CheckersSettleOn(c, i, contents) ==
  /\ tasks[c][i].pc = "checkers"
  /\ \E content \in (IF tasks[c][i].page = "open" THEN contents
                     ELSE {ClosedPage}) :
       Release(c, i, RunCheckers(calls[c].urls[i], tasks[c][i].invoked,
                                 tasks[c][i].cfg, content))
  /\ UNCHANGED <<mgrVars, config, ops, cli, unit>>

CheckersSettle(c, i) == CheckersSettleOn(c, i, PageContents)

\* a join that hands the results on in the order they arrived
CompletionOrder(checkers, arrived) ==
  [k \in 1..Len(arrived) |-> arrived[k].type]

\* Promise.all of lines 116-118 resolves to the results in the order of
\* its argument, enabledCheckers.map(...)
ResultOrder(checkers, arrived) == checkers

\* what the checkers that settled did, by checker type
Outcomes(arrived) ==
  [t \in Range(ALL_CHECKERS) |->
     IF \E k \in 1..Len(arrived) : arrived[k].type = t
     THEN arrived[CHOOSE k \in 1..Len(arrived) : arrived[k].type = t].out
     ELSE Quiet]

\* the check() of one checker settles (lines 116-118) on a page whose
\* content is one of `contents`: Promise.all rejects if it rejected,
\* resolves if it was the last one, and else goes on waiting
CheckerSettle(c, i, type, contents) ==
  /\ tasks[c][i].pc = "checkers"
  /\ type \in Range(tasks[c][i].invoked)
  /\ \A k \in 1..Len(tasks[c][i].arrived) :
       tasks[c][i].arrived[k].type # type
  /\ \E content \in (IF tasks[c][i].page = "open" THEN contents
                     ELSE {ClosedPage}) :
       LET t == tasks[c][i]
           arrived == Append(t.arrived, [type |-> type, out |-> content[type]])
           tk == [tasks[c] EXCEPT ![i].arrived = arrived]
       IN IF content[type].throws
          THEN ReleaseFrom(c, i, tk, Rejection("Checker", calls[c].urls[i]))
          ELSE IF Len(arrived) = Len(t.invoked)
          THEN ReleaseFrom(c, i, tk,
                 RunCheckers(calls[c].urls[i],
                             ResultOrder(t.invoked, arrived), t.cfg,
                             Outcomes(arrived)))
          ELSE /\ tasks' = [tasks EXCEPT ![c] = tk]
               /\ UNCHANGED calls
  /\ UNCHANGED <<mgrVars, config, ops, cli, unit>>

\* page.close settles; the closure (or checkUrl) settles with its result
PageCloseSettle(c, i) ==
  /\ tasks[c][i].pc = "closing"
  /\ Settle(c, i, [tasks[c] EXCEPT ![i].page = "closed"],
            tasks[c][i].result)
  /\ UNCHANGED <<mgrVars, config, ops, cli, unit>>

\* ------------------------------------------------------- reporter steps
\* Array.prototype.sort with the comparator of renderPageReport: stable,
\* the heavier severity first
SortBySeverity(issues) ==
  Flatten([k \in 1..Len(Severity) |->
             SelectSeq(issues, LAMBDA issue : issue.severity = Severity[k])])

\* ConsoleReporter.renderPageReport: page.issues.sort(...) sorts the array
\* of the page in place; it is reached when the page has issues
renderPageReport(page) ==
  IF page.totalIssues > 0
  THEN [page EXCEPT !.issues = SortBySeverity(@)]
  ELSE page

\* ConsoleReporter.generate, which has no await: what it leaves of the
\* pages of the report it was given
ConsoleGenerate(pages) ==
  [k \in 1..Len(pages) |-> renderPageReport(pages[k])]

\* generateReports, lines 176-198: the fs import and mkdir settle (a mkdir
\* failure is swallowed), then every configured reporter is started
GenerateReports(c) ==
  /\ calls[c].pc = "generateReports"
  /\ LET pages == IF "console" \in calls[c].formats
                  THEN ConsoleGenerate(calls[c].result.pages)
                  ELSE calls[c].result.pages
     IN \* report.pages, pageReports and the values the closures resolved
        \* to are the same objects
        /\ calls' = [calls EXCEPT
                       ![c].pc = "reporters",
                       ![c].reporters = @ \cup
                          (calls[c].formats \cap {"console", "json", "html"}),
                       ![c].pageReports = pages,
                       ![c].result.pages = pages]
        /\ tasks' = [tasks EXCEPT
                       ![c] = [i \in TaskIds |->
                                 IF i <= Len(pages)
                                 THEN [tasks[c][i] EXCEPT !.result = pages[i]]
                                 ELSE tasks[c][i]]]
  /\ UNCHANGED <<mgrVars, config, ops, cli, unit>>

\* Promise.all(reportPromises) settles (line 200): the reporters that write
\* a file can fail; then the finally block of checkUrls runs
ReportersSettle(c) ==
  /\ calls[c].pc = "reporters"
  /\ \/ calls' = [calls EXCEPT
                    ![c] = LeaveTry(browser, context, @, @.result)]
     \/ /\ calls[c].reporters \cap {"json", "html"} # {}
        /\ calls' = [calls EXCEPT
                       ![c] = LeaveTry(browser, context, @,
                                       Rejection("Reporter", 0))]
  /\ UNCHANGED <<mgrVars, config, tasks, ops, cli, unit>>

\* ---------------------------------------------------------- close steps
\* closing context k (or its engine) closes the pages opened in it
ClosePagesOf(k) ==
  [d \in Calls |-> [j \in TaskIds |->
     IF tasks[d][j].ctx = k /\ tasks[d][j].page = "open"
     THEN [tasks[d][j] EXCEPT !.page = "closed"]
     ELSE tasks[d][j]]]

\* context.close settles (line 57); this.context = null; then line 61
CloseContextSettle(c) ==
  /\ calls[c].pc = "closeContext"
  /\ LET k == calls[c].target
     IN /\ ctx' = [ctx EXCEPT ![k] = "closed"]
        /\ tasks' = ClosePagesOf(k)
  /\ context' = 0
  /\ calls' = [calls EXCEPT ![c] = CloseBrowserPart(browser, @)]
  /\ UNCHANGED <<browser, engine, config, ops, cli, unit>>

\* browser.close settles (line 62); this.browser = null; close returns
CloseBrowserSettle(c) ==
  /\ calls[c].pc = "closeBrowser"
  /\ LET k == calls[c].target
     IN /\ engine' = [engine EXCEPT ![k] = "closed"]
        /\ ctx' = [ctx EXCEPT ![k] = IF @ = "live" THEN "closed" ELSE @]
        /\ tasks' = ClosePagesOf(k)
  /\ browser' = 0
  /\ calls' = [calls EXCEPT ![c].pc = "done"]
  /\ UNCHANGED <<context, config, ops, cli, unit>>

\* ------------------------------------- a client of BrowserManager itself
\* BrowserManager is exported: a client calls launch, createPage and close
\* directly, one call after the other
ClientReady == Quiescent(1) /\ ops < MaxOps

ClientCall(kind) ==
  [IdleCall EXCEPT !.kind = kind, !.pre = <<browser, context>>]

\* BrowserManager.launch(config)
launch ==
  /\ ClientReady
  /\ calls' = [calls EXCEPT
                 ![1] = [ClientCall("launch") EXCEPT !.pc = "launch",
                                                     !.launched = TRUE]]
  /\ tasks' = [tasks EXCEPT ![1] = [i \in TaskIds |-> IdleTask]]
  /\ ops' = ops + 1
  /\ UNCHANGED <<mgrVars, config, cli, unit>>

\* BrowserManager.createPage()
createPage ==
  /\ ClientReady
  /\ LET r == AfterLaunch(browser, context, ClientCall("createPage"),
                          [i \in TaskIds |-> IdleTask])
     IN /\ calls' = [calls EXCEPT ![1] = r.call]
        /\ tasks' = [tasks EXCEPT ![1] = r.tk]
  /\ ops' = ops + 1
  /\ UNCHANGED <<mgrVars, config, cli, unit>>

\* BrowserManager.close()
close ==
  /\ ClientReady
  /\ calls' = [calls EXCEPT
                 ![1] = CloseInvoke(browser, context, ClientCall("close"),
                                    [kind |-> "void"])]
  /\ tasks' = [tasks EXCEPT ![1] = [i \in TaskIds |-> IdleTask]]
  /\ ops' = ops + 1
  /\ UNCHANGED <<mgrVars, config, cli, unit>>

\* ------------------------------------------------------- specifications
\* the orchestrator never inspects or compares URLs: a list of n URLs is
\* taken to be n different URLs
UrlList(n) == [i \in 1..n |-> n + 1 - i]
UrlLists == {UrlList(n) : n \in 0..MaxUrls}
OverlapUrlLists == {UrlList(n) : n \in 0..MaxOverlapUrls}

Steps ==
  \/ \E c \in Calls : LaunchSettle(c)
  \/ \E c \in Calls : NewContextSettle(c)
  \/ \E c \in Calls, i \in TaskIds : NewPageSettle(c, i)
  \/ \E c \in Calls, i \in TaskIds : InitScriptSettle(c, i)
  \/ \E c \in Calls, i \in TaskIds : GotoSettle(c, i)
  \/ \E c \in Calls, i \in TaskIds : StabilizeSettle(c, i)
  \/ \E c \in Calls, i \in TaskIds : CheckersSettle(c, i)
  \/ \E c \in Calls, i \in TaskIds : PageCloseSettle(c, i)
  \/ \E c \in Calls : GenerateReports(c)
  \/ \E c \in Calls : ReportersSettle(c)
  \/ \E c \in Calls : CloseContextSettle(c)
  \/ \E c \in Calls : CloseBrowserSettle(c)

\* the caller awaits each call of the orchestrator before the next one
Next ==
  \/ \E u \in {1} : Quiescent(1) /\ ops < MaxRuns /\ checkUrl(1, u)
  \/ \E us \in UrlLists : Quiescent(1) /\ ops < MaxRuns /\ checkUrls(1, us)
  \/ Steps

Spec == Init /\ [][Next]_vars

\* the caller issues calls on one orchestrator without awaiting them
NextOverlap ==
  \/ \E c \in Calls, u \in {1} : Fresh(c) /\ checkUrl(c, u)
  \/ \E c \in Calls, us \in OverlapUrlLists : Fresh(c) /\ checkUrls(c, us)
  \/ Steps

SpecOverlap == Init /\ [][NextOverlap]_vars

\* a client drives a BrowserManager directly
NextManager ==
  \/ launch
  \/ createPage
  \/ close
  \/ LaunchSettle(1)
  \/ NewContextSettle(1)
  \/ NewPageSettle(1, 1)
  \/ InitScriptSettle(1, 1)
  \/ CloseContextSettle(1)
  \/ CloseBrowserSettle(1)

SpecManager == Init /\ [][NextManager]_vars

\* the `checks` objects a caller configures: the default, one checker
\* disabled, and lists that overlap
CheckSets ==
  {[enabled |-> Range(CheckType), disabled |-> {}],
   [enabled |-> Range(CheckType), disabled |-> {"color-contrast"}],
   [enabled |-> {"alt-text", "color-contrast", "heading-structure"},
    disabled |-> {"alt-text", "keyboard-navigation"}]}

\* the partial configurations handed to configure()
AuditConfigs ==
  {[wcagLevel |-> l, enabled |-> ch.enabled, disabled |-> ch.disabled] :
     l \in Range(WcagLevel), ch \in CheckSets}

\* single page checks under the configurations a caller sets between them
NextAudit ==
  \/ \E p \in AuditConfigs : Quiescent(1) /\ configure(p)
  \/ Quiescent(1) /\ ops < MaxRuns /\ checkUrl(1, 1)
  \/ LaunchSettle(1)
  \/ NewContextSettle(1)
  \/ NewPageSettle(1, 1)
  \/ InitScriptSettle(1, 1)
  \/ GotoSettle(1, 1)
  \/ StabilizeSettle(1, 1)
  \/ CheckersSettleOn(1, 1, AuditContents)
  \/ PageCloseSettle(1, 1)

SpecAudit == Init /\ [][NextAudit]_vars

\* the pages whose checkers are followed one by one
CheckerContents == {FlawedPage, ContrastPage, BrokenPage}

\* what a caller hands to configure() while a run is under way
Reconfigurations == {[wcagLevel |-> "AAA"], [concurrent |-> 1]}

\* configure() is synchronous and the orchestrator does not guard it: a
\* caller that holds the orchestrator can call it between any two steps
\* of a checkUrls run
NextReconfigure ==
  \/ \E p \in Reconfigurations : configure(p)
  \/ \E us \in UrlLists : Quiescent(1) /\ ops < MaxRuns /\ checkUrls(1, us)
  \/ Steps

SpecReconfigure == Init /\ [][NextReconfigure]_vars

\* values of `concurrent` that neither the constructor nor configure()
\* rejects, next to one that batches
UncheckedSizes == {-1, 0, 1}

InitLoop ==
  /\ browser = 0
  /\ context = 0
  /\ engine = [k \in Engines |-> "none"]
  /\ ctx = [k \in Engines |-> "none"]
  /\ config \in {MergeConfig(DEFAULT_CONFIG, [concurrent |-> n]) :
                   n \in UncheckedSizes}
  /\ calls = [c \in Calls |-> IdleCall]
  /\ tasks = [c \in Calls |-> [i \in TaskIds |-> IdleTask]]
  /\ ops = 0
  /\ cli = IdleCli
  /\ unit = IdleUnit

\* what the event loop runs once a call was made
Running == Steps \/ ChunkArrayLoop(1)

NextLoop ==
  \/ \E us \in UrlLists : Quiescent(1) /\ ops < MaxRuns /\ checkUrls(1, us)
  \/ Running

\* every launch, page, checker, reporter and close operation that was
\* requested settles, and the event loop runs the continuation
SpecLoop == InitLoop /\ [][NextLoop]_vars /\ WF_vars(Running)

\* page checks in which each checker settles on its own, in any order
NextCheckers ==
  \/ Quiescent(1) /\ ops < MaxRuns /\ checkUrl(1, 1)
  \/ LaunchSettle(1)
  \/ NewContextSettle(1)
  \/ NewPageSettle(1, 1)
  \/ InitScriptSettle(1, 1)
  \/ GotoSettle(1, 1)
  \/ StabilizeSettle(1, 1)
  \/ \E type \in Range(ALL_CHECKERS) :
       CheckerSettle(1, 1, type, CheckerContents)
  \/ PageCloseSettle(1, 1)

SpecCheckers == Init /\ [][NextCheckers]_vars

\* ------------------------------------------------------ the command line
\* a URL argument is the sequence of its parts: scheme prefix (if it has
\* one) and the rest
Schemes == {"http://", "https://"}

\* new URL(rest after the scheme) finds a host in it
HostParses(rest) == rest \in {"a.test", "b.test"}

\* isValidUrl, utils.ts: new URL(url) does not throw and the protocol is
\* http: or https:
isValidUrl(url) ==
  /\ Len(url) = 2
  /\ url[1] \in Schemes
  /\ HostParses(url[2])

\* normalizeUrl, utils.ts
normalizeUrl(url) ==
  IF url # <<>> /\ url[1] \in Schemes THEN url ELSE <<"https://">> \o url

\* runAccessibilityCheck, lines 693-702: the callback of urls.map
ValidUrl(url) ==
  IF ~isValidUrl(url)
  THEN LET normalized == normalizeUrl(url)
       IN IF ~isValidUrl(normalized) THEN Failure("InvalidUrl", url)
          ELSE Value(normalized)
  ELSE Value(url)

NaN == [kind |-> "NaN"]

isNaN(number) == number.kind = "NaN"

\* parseInt of the strings the options are given as
parseInt(str) ==
  CASE str = "0" -> Value(0)
    [] str = "1" -> Value(1)
    [] str = "2" -> Value(2)
    [] str = "3" -> Value(3)
    [] str = "4" -> Value(4)
    [] str = "11" -> Value(11)
    [] OTHER -> NaN

\* String.prototype.toUpperCase on the level options
toUpperCase(str) ==
  CASE str = "a" -> "A"
    [] str = "aa" -> "AA"
    [] str = "aaa" -> "AAA"
    [] str = "b" -> "B"
    [] OTHER -> str

\* parseConfiguration without a config file: the partial configuration, or
\* the first error of lines 764-804
parseConfiguration(options) ==
  LET level == toUpperCase(options.level)
      concurrent == parseInt(options.concurrent)
  IN IF level \notin Range(WcagLevel)
     THEN Failure("InvalidLevel", 0)
     ELSE IF \E k \in 1..Len(options.format) :
               options.format[k] \notin {"console", "json", "html"}
     THEN Failure("InvalidFormat", 0)
     ELSE IF isNaN(concurrent)
     THEN Failure("InvalidConcurrent", 0)
     ELSE IF concurrent.value < 1 \/ concurrent.value > 10
     THEN Failure("InvalidConcurrent", 0)
     ELSE Value([wcagLevel |-> level,
                 format |-> Range(options.format),
                 concurrent |-> concurrent.value])

\* a run that reports success whatever it found
ExitsZero(totalIssues) == 0

\* line 742: report.summary.totalIssues > 0 ? 1 : 0
ExitCode(totalIssues) == IF totalIssues > 0 THEN 1 ELSE 0

\* process.exit(code)
Exit(code) == [cli EXCEPT !.pc = "exited", !.exit = code]

\* the action handler of lines 676-683 runs runAccessibilityCheck up to its
\* first await: the URLs are validated and parseConfiguration is called
CliStart(argv) ==
  /\ cli.pc = "idle"
  /\ LET validUrls == [k \in 1..Len(argv.urls) |-> ValidUrl(argv.urls[k])]
     IN IF \E k \in 1..Len(validUrls) : validUrls[k].kind = "error"
        THEN cli' = [Exit(1) EXCEPT !.argv = argv]
        ELSE cli' = [cli EXCEPT
                       !.pc = "parseConfiguration",
                       !.argv = argv,
                       !.urls = [k \in 1..Len(validUrls) |->
                                   validUrls[k].value]]
  /\ UNCHANGED <<mgrVars, config, calls, tasks, ops, unit>>

\* parseConfiguration settles (line 705); the orchestrator is constructed
\* and checkUrl or checkUrls is called (lines 710-729)
CliConfigSettle ==
  /\ cli.pc = "parseConfiguration"
  /\ LET parsed == parseConfiguration(cli.argv.options)
     IN IF parsed.kind = "error"
        THEN /\ cli' = Exit(1)
             /\ UNCHANGED <<config, calls, tasks>>
        ELSE /\ config' = MergeConfig(DEFAULT_CONFIG, parsed.value)
             /\ Enter(1, IF Len(cli.urls) = 1 THEN "checkUrl"
                         ELSE "checkUrls", cli.urls)
             /\ cli' = [cli EXCEPT !.pc = "run"]
  /\ UNCHANGED <<mgrVars, ops, unit>>

\* checkUrl or checkUrls settles: lines 716-742, or the catch blocks of
\* lines 744-747 and 679-682
CliRunSettle ==
  /\ cli.pc = "run"
  /\ calls[1].pc = "done"
  /\ LET res == calls[1].result
     IN cli' = IF res.kind = "error" THEN Exit(1)
               ELSE IF calls[1].kind = "checkUrl"
               THEN Exit(ExitCode(res.totalIssues))
               ELSE Exit(ExitCode(res.summary.totalIssues))
  /\ UNCHANGED <<mgrVars, config, calls, tasks, ops, unit>>

\* the arguments the command is run with
CliUrls == {<<"https://", "a.test">>, <<"b.test">>, <<"http://", "">>}

CliOptions ==
  {[level |-> l, format |-> f, concurrent |-> n] :
     l \in {"AA", "aaa", "b"},
     f \in {<<"console", "json">>, <<"pdf">>},
     n \in {"3", "0", "x"}}

CliArgs ==
  {[urls |-> us, options |-> o] :
     us \in UNION {[1..n -> CliUrls] : n \in 1..MaxCliUrls},
     o \in CliOptions}

\* process.exit ends the process: nothing of it runs afterwards
NextCli ==
  \/ \E argv \in CliArgs : CliStart(argv)
  \/ CliConfigSettle
  \/ CliRunSettle
  \/ cli.pc # "exited" /\ Steps

SpecCli == Init /\ [][NextCli]_vars

\* ---------------------------------------- the functions of utils.ts alone
\* issues that differ in what calculateScore reads, the severity
ScoreIssues ==
  {createAccessibilityIssue("heading-structure", sev, "A", "m", "d") :
     sev \in Range(Severity)}

\* the sequences handed to calculateScore: every sequence of up to MaxMixed
\* issues, followed by up to MaxErrors errors
ScoreInputs ==
  {mixed \o [j \in 1..n |->
              createAccessibilityIssue("heading-structure", "error", "A",
                                       "m", "d")] :
     mixed \in UNION {[1..m -> ScoreIssues] : m \in 0..MaxMixed},
     n \in 0..MaxErrors}

\* the arguments of createAccessibilityIssue: any type, severity and level
IssueInputs ==
  {<<t, sev, l, msg, "d">> :
     t \in Range(CheckType), sev \in Range(Severity),
     l \in Range(WcagLevel), msg \in {"m1", "m2"}}

\* the arguments of chunkArray: every array of up to MaxItems URLs and every
\* chunk size from 1 to MaxChunk
ChunkInputs ==
  {<<array, chunkSize>> :
     array \in UNION {[1..n -> Urls] : n \in 0..MaxItems},
     chunkSize \in 1..MaxChunk}

InitUnit ==
  /\ browser = 0
  /\ context = 0
  /\ engine = [k \in Engines |-> "none"]
  /\ ctx = [k \in Engines |-> "none"]
  /\ config = DEFAULT_CONFIG
  /\ calls = [c \in Calls |-> IdleCall]
  /\ tasks = [c \in Calls |-> [i \in TaskIds |-> IdleTask]]
  /\ ops = 0
  /\ cli = IdleCli
  /\ unit \in
       {[fn |-> "calculateScore", args |-> <<issues>>, ret |-> NoResult] :
          issues \in ScoreInputs}
       \cup
       {[fn |-> "createAccessibilityIssue", args |-> a, ret |-> NoResult] :
          a \in IssueInputs}
       \cup
       {[fn |-> "chunkArray", args |-> a, ret |-> NoResult] :
          a \in ChunkInputs}

\* calculateScore(issues) returns
ApplyCalculateScore ==
  /\ unit.fn = "calculateScore" /\ unit.ret = NoResult
  /\ unit' = [unit EXCEPT !.ret = Value(calculateScore(unit.args[1]))]
  /\ UNCHANGED <<mgrVars, config, calls, tasks, ops, cli>>

\* createAccessibilityIssue(type, severity, wcagLevel, message,
\* description) returns
ApplyCreateAccessibilityIssue ==
  /\ unit.fn = "createAccessibilityIssue" /\ unit.ret = NoResult
  /\ unit' = [unit EXCEPT
                !.ret = Value(createAccessibilityIssue(
                                unit.args[1], unit.args[2], unit.args[3],
                                unit.args[4], unit.args[5]))]
  /\ UNCHANGED <<mgrVars, config, calls, tasks, ops, cli>>

\* chunkArray(array, chunkSize) returns
ApplyChunkArray ==
  /\ unit.fn = "chunkArray" /\ unit.ret = NoResult
  /\ unit' = [unit EXCEPT
                !.ret = Value(chunkArray(unit.args[1], unit.args[2]))]
  /\ UNCHANGED <<mgrVars, config, calls, tasks, ops, cli>>

NextUnit ==
  \/ ApplyCalculateScore
  \/ ApplyCreateAccessibilityIssue
  \/ ApplyChunkArray

SpecUnit == InitUnit /\ [][NextUnit]_vars

TypeOK ==
  /\ browser \in 0..MaxEngines
  /\ context \in 0..MaxEngines

\* ----------------------------------------------------------- properties
Orchestrated(c) == calls[c].kind \in {"checkUrl", "checkUrls"}
Returned(c) == calls[c].pc = "done"
Last(s) == s[Len(s)]

\* the failures checkPage raises: the page was handed to the Auditor
PageCheckFailures == {"Navigation", "Stabilization", "Checker"}
PageCheckFailed(res) == res.kind = "error" /\ res.type \in PageCheckFailures

\* the batch the i-th URL of call c belongs to
BatchOf(c, i) ==
  CHOOSE n \in 1..Len(calls[c].chunks) :
    i \in Range(ChunkIdx(calls[c].chunks, n))

Started(c) == {i \in 1..Len(calls[c].urls) : tasks[c][i].pc # "none"}

\* C1: when checkUrls succeeds, the i-th entry of report.pages is the
\* report of the page check of the i-th input URL, whatever the order in
\* which the page checks of a batch completed
C1_PagesInInputOrder ==
  \A c \in Calls :
    (calls[c].kind = "checkUrls" /\ Returned(c)
       /\ calls[c].result.kind = "report") =>
      /\ Len(calls[c].result.pages) = Len(calls[c].urls)
      /\ \A i \in 1..Len(calls[c].urls) :
           /\ calls[c].result.pages[i] = tasks[c][i].result
           /\ calls[c].result.pages[i].kind = "report"
           /\ calls[c].result.pages[i].url = calls[c].urls[i]

\* a run of two different URLs in one batch whose second page check
\* completed first and found something else than the first
C1_Witness ==
  \E c \in Calls :
    /\ calls[c].kind = "checkUrls" /\ Returned(c)
    /\ calls[c].result.kind = "report"
    /\ Len(calls[c].urls) = 2
    /\ calls[c].urls[1] # calls[c].urls[2]
    /\ calls[c].arrival = <<2, 1>>
    /\ tasks[c][1].result.issues # tasks[c][2].result.issues

\* C2: no page check of batch K+1 has started (no page requested, no
\* Auditor running) unless every page check of batch K has completed
C2_BatchesSequential ==
  \A c \in Calls :
    calls[c].kind = "checkUrls" =>
      \A i \in Started(c), j \in Started(c) :
        BatchOf(c, i) < BatchOf(c, j) => tasks[c][i].pc = "done"

\* the second batch runs its checkers after a first batch of two
C2_Witness ==
  \E c \in Calls :
    /\ calls[c].kind = "checkUrls"
    /\ calls[c].b = 2
    /\ Len(calls[c].chunks[1]) = 2
    /\ tasks[c][3].pc = "checkers"

\* C3: once a page check of a checkUrls run has failed, the run is aborted:
\* the call rejects with the first failure, no reporter is invoked, no
\* later batch is started and no report is returned
C3_AllOrNothing ==
  \A c \in Calls :
    (calls[c].kind = "checkUrls"
       /\ \E i \in Started(c) : /\ tasks[c][i].pc = "done"
                                /\ tasks[c][i].result.kind = "error") =>
      /\ calls[c].pc \in {"closeContext", "closeBrowser", "done"}
      /\ calls[c].result = tasks[c][Last(calls[c].arrival)].result
      /\ calls[c].result.kind = "error"
      /\ calls[c].reporters = {}
      /\ \A j \in 1..Len(calls[c].urls) :
           BatchOf(c, j) > calls[c].b => tasks[c][j].pc = "none"

\* a run that rejected with a stabilization failure of its second batch,
\* after a first batch that succeeded, with a third batch never started
C3_Witness ==
  \E c \in Calls :
    /\ calls[c].kind = "checkUrls" /\ Returned(c)
    /\ Len(calls[c].urls) = 3
    /\ calls[c].b = 2
    /\ Len(calls[c].pageReports) = 1
    /\ calls[c].result.kind = "error"
    /\ calls[c].result.type = "Stabilization"
    /\ tasks[c][3].pc = "none"

\* the session was launched for the call or before it: launch did not fail
Launched(c) ==
  ~(calls[c].result.kind = "error"
      /\ calls[c].result.type \in {"Launch", "NewContext"})

\* C4: when checkUrls returns or rejects after the session was launched the
\* manager is Unlaunched; reporters run only after every batch completed
\* and before the teardown; a reporter failure is rethrown after it
C4_TeardownBeforeReturn ==
  \A c \in Calls :
    calls[c].kind = "checkUrls" =>
      /\ (Returned(c) /\ Launched(c)) => (browser = 0 /\ context = 0)
      /\ calls[c].pc \in {"generateReports", "reporters"} =>
           /\ Len(calls[c].pageReports) = Len(calls[c].urls)
           /\ \A i \in 1..Len(calls[c].urls) :
                tasks[c][i].pc = "done" /\ tasks[c][i].result.kind = "report"
           /\ calls[c].teardown = <<>>
           /\ browser # 0 /\ context # 0
      /\ calls[c].reporters # {} =>
           Len(calls[c].pageReports) = Len(calls[c].urls)

\* a run whose reporter failed, rethrown after context and engine were
\* torn down
C4_Witness ==
  \E c \in Calls :
    /\ calls[c].kind = "checkUrls" /\ Returned(c)
    /\ calls[c].result.kind = "error"
    /\ calls[c].result.type = "Reporter"
    /\ calls[c].reporters # {}
    /\ calls[c].teardown = <<"context", "engine">>
    /\ browser = 0 /\ context = 0

\* C5: over checkUrl calls, also overlapping ones, launch is never invoked
\* while another launch is in progress
C5_LaunchOnce ==
  \A c \in Calls, d \in Calls :
    (c # d /\ calls[c].kind = "checkUrl" /\ calls[d].kind = "checkUrl"
       /\ calls[c].pc \in {"launch", "newContext"}) =>
      calls[d].pc \notin {"launch", "newContext"}

\* checkPage ran for this result: a report or a failure of the page check
FromCheckPage(res) == res.kind = "report" \/ PageCheckFailed(res)

\* C6: checkUrl does not close the session: when it has returned a report or
\* rejected with a page check failure the manager is Launched, holding the
\* live engine and context its page was created in, and a checkUrl issued
\* on a Launched session creates its page there without launching
C6_CheckUrlKeepsSession ==
  \A c \in Calls :
    calls[c].kind = "checkUrl" =>
      /\ (Returned(c) /\ FromCheckPage(calls[c].result)) =>
           /\ browser # 0 /\ context # 0
           /\ context = tasks[c][1].ctx /\ browser = tasks[c][1].ctx
           /\ engine[browser] = "live" /\ ctx[context] = "live"
           /\ calls[c].teardown = <<>>
      /\ (calls[c].pre[1] # 0 /\ calls[c].pre[2] # 0) =>
           /\ ~calls[c].launched
           /\ tasks[c][1].ctx = calls[c].pre[2]

\* a second checkUrl that found the session launched by the first one, did
\* not launch, and rejected with a navigation failure
C6_Witness ==
  /\ ops = 2
  /\ calls[1].kind = "checkUrl" /\ Returned(1)
  /\ calls[1].pre = <<1, 1>> /\ ~calls[1].launched
  /\ calls[1].result.kind = "error" /\ calls[1].result.type = "Navigation"
  /\ browser = 1 /\ context = 1

\* C7: a page the orchestrator obtained is released once, after checkPage
\* has settled, whether it returned or threw; no page of a call is open when
\* the call has returned
C7_PagesReleasedOnce ==
  \A c \in Calls :
    Orchestrated(c) =>
      \A i \in TaskIds :
        LET t == tasks[c][i]
        IN /\ t.closes <= 1
           /\ t.pc \in {"newPage", "initScript", "goto", "stabilize",
                        "checkers"} => t.closes = 0
           /\ t.closes = 1 => /\ t.pc \in {"closing", "done"}
                              /\ FromCheckPage(t.result)
           /\ (t.pc = "done" /\ FromCheckPage(t.result)) =>
                (t.closes = 1 /\ t.page = "closed")
           /\ Returned(c) => t.page # "open"

\* a batch of two: one page check failed, the other returned, and both
\* pages were released
C7_Witness ==
  \E c \in Calls :
    /\ calls[c].kind = "checkUrls" /\ Returned(c)
    /\ Len(calls[c].chunks) >= 1 /\ Len(calls[c].chunks[1]) = 2
    /\ tasks[c][1].pc = "done" /\ tasks[c][2].pc = "done"
    /\ PageCheckFailed(tasks[c][1].result)
    /\ tasks[c][2].result.kind = "report"
    /\ tasks[c][1].closes = 1 /\ tasks[c][2].closes = 1

\* the report of a page on which a throwing checker counts for no issue
IsolatedReport(url, content) ==
  PageHealthReport(url,
    Flatten([k \in 1..Len(enabledCheckers) |->
               IF content[enabledCheckers[k]].throws THEN <<>>
               ELSE CheckerIssues(enabledCheckers[k],
                                  content[enabledCheckers[k]].found,
                                  config)]))

\* C8: when the checkers have run on an open page the page check returns a
\* report, in which a checker that threw contributes no issue
C8_CheckerFailureIsolated ==
  [][\A c \in Calls, i \in TaskIds :
       (tasks[c][i].pc = "checkers" /\ tasks[c][i].page = "open"
          /\ tasks'[c][i].pc = "closing") =>
         tasks'[c][i].result \in
           {IsolatedReport(calls[c].urls[i], content) :
              content \in PageContents}]_vars

\* C9: createPage called on an Unlaunched manager fails with the
\* initialization error, creates no page and leaves the manager as it was;
\* createPage returns a page only when the manager was Launched
C9_CreatePageNeedsLaunch ==
  calls[1].kind = "createPage" =>
    /\ (calls[1].pre[1] = 0 \/ calls[1].pre[2] = 0) =>
         /\ Returned(1)
         /\ calls[1].result = NotInitialized
         /\ tasks[1][1].page = "none" /\ tasks[1][1].ctx = 0
         /\ <<browser, context>> = calls[1].pre
    /\ (Returned(1) /\ calls[1].result.kind = "page") =>
         (calls[1].pre[1] # 0 /\ calls[1].pre[2] # 0)

\* createPage refused on a manager that was launched and then closed
C9_Witness ==
  /\ calls[1].kind = "createPage" /\ Returned(1)
  /\ calls[1].result = NotInitialized
  /\ engine[1] = "closed" /\ ctx[1] = "closed"
  /\ browser = 0 /\ context = 0

C11_ReportersDoNotMutate ==
  \A c \in Calls :
    (calls[c].kind = "checkUrls" /\ calls[c].reporters # {}
       /\ calls[c].result.kind = "report") =>
      calls[c].result = calls[c].computed

\* the checkers the filter of a page check lets through under cfg
Selected(cfg) ==
  {t \in Range(ALL_CHECKERS) : t \in cfg.enabled /\ t \notin cfg.disabled}

\* C12: in a page check that reaches its checkers, the checkers invoked are
\* the registered ones whose type is enabled and not disabled; before that
\* none is invoked; a type in both lists is never invoked and no issue of
\* the report has it
C12_DisabledWins ==
  \A c \in Calls, i \in TaskIds :
    LET t == tasks[c][i]
    IN /\ t.pc \in {"none", "newPage", "initScript", "goto", "stabilize"} =>
            t.invoked = <<>>
       /\ t.pc = "checkers" => Range(t.invoked) = Selected(t.cfg)
       /\ t.invoked # <<>> =>
            /\ Range(t.invoked) = Selected(t.cfg)
            /\ Range(t.invoked) \cap (t.cfg.enabled \cap t.cfg.disabled) = {}
            /\ t.result.kind = "report" =>
                 \A k \in 1..Len(t.result.issues) :
                   /\ t.result.issues[k].type \in t.cfg.enabled
                   /\ t.result.issues[k].type \notin t.cfg.disabled

\* the report of the page with an image without alt text, a faint text and
\* an unlabelled field, checked with alt-text in both lists and form-labels
\* in neither: the contrast warning is all it holds
C12_Witness ==
  LET t == tasks[1][1]
  IN /\ t.pc = "done" /\ t.result.kind = "report"
     /\ "alt-text" \in t.cfg.enabled \cap t.cfg.disabled
     /\ t.invoked = <<"color-contrast", "heading-structure">>
     /\ Len(t.result.issues) = 1
     /\ t.result.issues[1].type = "color-contrast"
     /\ t.result.issues[1].message = "ratio 3.9"

\* the page reports the page checks have produced
Reports ==
  {tasks[c][i].result : c \in Calls, i \in TaskIds} \cap
    {r \in {tasks[c][i].result : c \in Calls, i \in TaskIds} :
       r.kind = "report"}

\* C13: in every page report and for each level L, wcagCompliance[L] is
\* false iff some issue of the report has severity error and wcagLevel L
C13_ComplianceExactLevel ==
  \A r \in Reports, l \in Range(WcagLevel) :
    /\ DOMAIN r.wcagCompliance = Range(WcagLevel)
    /\ r.wcagCompliance[l] = FALSE <=>
         \E k \in 1..Len(r.issues) :
           r.issues[k].severity = "error" /\ r.issues[k].wcagLevel = l

\* a report with errors of level A and of level AAA, and at level AA a
\* warning at most: it complies with AA alone
C13_Witness ==
  \E r \in Reports :
    /\ r.wcagCompliance = [A |-> FALSE, AA |-> TRUE, AAA |-> FALSE]
    /\ \E k \in 1..Len(r.issues) :
         r.issues[k].severity = "warning" /\ r.issues[k].wcagLevel = "AAA"
    /\ \E k \in 1..Len(r.issues) :
         r.issues[k].severity = "info" /\ r.issues[k].wcagLevel = "A"

RECURSIVE SumOver(_, _)
SumOver(f, S) ==
  IF S = {} THEN 0
  ELSE LET x == CHOOSE y \in S : TRUE IN f[x] + SumOver(f, S \ {x})

\* C15: in every page report issuesByType has an entry for each of the 8
\* checker types, its entries and the three entries of issuesBySeverity
\* each add up to totalIssues, which is the length of issues
C15_CountsAddUp ==
  \A r \in Reports :
    /\ DOMAIN r.issuesByType = Range(CheckType)
    /\ Cardinality(DOMAIN r.issuesByType) = 8
    /\ \A t \in Range(CheckType) : r.issuesByType[t] \in Nat
    /\ SumOver(r.issuesByType, Range(CheckType)) = r.totalIssues
    /\ DOMAIN r.issuesBySeverity = Range(Severity)
    /\ SumOver(r.issuesBySeverity, Range(Severity)) = r.totalIssues
    /\ r.totalIssues = Len(r.issues)

\* a report of five issues of two types and three severities; the types
\* without a registered checker and those that found nothing count zero
C15_Witness ==
  \E r \in Reports :
    /\ r.totalIssues = 5
    /\ r.issuesByType["heading-structure"] = 3
    /\ r.issuesByType["color-contrast"] = 2
    /\ r.issuesByType["keyboard-navigation"] = 0
    /\ r.issuesByType["alt-text"] = 0
    /\ r.issuesBySeverity = [error |-> 2, warning |-> 2, info |-> 1]

Abs(n) == IF n < 0 THEN 0 - n ELSE n

\* C16: when checkUrls succeeds on N >= 1 URLs, summary.totalPages is N,
\* summary.totalIssues is the sum of the pages' totalIssues and
\* summary.overallScore is an integer of 0..100 at most one half away from
\* the mean of the pages' scores
C16_SummaryAggregates ==
  \A c \in Calls :
    (calls[c].kind = "checkUrls" /\ Returned(c)
       /\ calls[c].result.kind = "report" /\ Len(calls[c].urls) >= 1) =>
      LET r == calls[c].result
          N == Len(calls[c].urls)
          scores == SeqSum([k \in 1..Len(r.pages) |-> r.pages[k].score])
      IN /\ r.summary.totalPages = N
         /\ Len(r.pages) = N
         /\ r.summary.totalIssues =
              SeqSum([k \in 1..N |-> r.pages[k].totalIssues])
         /\ r.summary.overallScore \in 0..100
         /\ 2 * Abs(N * r.summary.overallScore - scores) <= N

\* a run of three pages scoring 100, 100 and 75 in some order: the mean
\* 91.67 is reported as 92
C16_Witness ==
  \E c \in Calls :
    /\ calls[c].kind = "checkUrls" /\ Returned(c)
    /\ calls[c].result.kind = "report"
    /\ calls[c].result.summary.totalPages = 3
    /\ calls[c].result.summary.totalIssues = 3
    /\ calls[c].result.summary.overallScore = 92

\* C17: page.goto is called at most once in a page check; when it fails the
\* page check rejects with an error that carries the URL and what goto
\* rejected with, after one attempt, and neither the stabilization wait nor
\* a checker is started for the page
C17_NavigationOnce ==
  \A c \in Calls, i \in TaskIds :
    LET t == tasks[c][i]
    IN Orchestrated(c) =>
         /\ t.gotos <= 1
         /\ (t.result.kind = "error" /\ t.result.type = "Navigation") =>
              /\ t.gotos = 1
              /\ t.result.url = calls[c].urls[i]
              /\ \E cause \in {GotoError("open"), GotoError("closed")} :
                   t.result.message =
                     <<"Failed to load ", calls[c].urls[i], ": ", cause>>
              /\ t.waits = 0
              /\ t.invoked = <<>>
              /\ t.pc \in {"closing", "done"}

\* a checkUrl that rejected with the navigation error of a host that does
\* not resolve
C17_Witness ==
  /\ calls[1].kind = "checkUrl" /\ Returned(1)
  /\ calls[1].result.kind = "error" /\ calls[1].result.type = "Navigation"
  /\ calls[1].result.message[4] = "net::ERR_NAME_NOT_RESOLVED"
  /\ tasks[1][1].gotos = 1 /\ tasks[1][1].waits = 0

\* C18: an issue of the alt-text, heading-structure, aria-attributes or
\* form-labels checker carries level A whatever config.wcagLevel is; an
\* issue of the color-contrast checker carries the configured level
C18_IssueLevelSource ==
  \A c \in Calls, i \in TaskIds :
    LET t == tasks[c][i]
    IN t.result.kind = "report" =>
         \A k \in 1..Len(t.result.issues) :
           LET issue == t.result.issues[k]
           IN /\ issue.type \in {"alt-text", "heading-structure",
                                 "aria-attributes", "form-labels"} =>
                   issue.wcagLevel = "A"
              /\ issue.type = "color-contrast" =>
                   issue.wcagLevel = t.cfg.wcagLevel
              /\ issue.type \in Range(ALL_CHECKERS)

\* a report made under target level AAA: its alt-text issue has level A and
\* its color-contrast issue level AAA
C18_Witness ==
  LET t == tasks[1][1]
  IN /\ t.result.kind = "report" /\ t.cfg.wcagLevel = "AAA"
     /\ \E k \in 1..Len(t.result.issues) :
          /\ t.result.issues[k].type = "alt-text"
          /\ t.result.issues[k].wcagLevel = "A"
     /\ \E k \in 1..Len(t.result.issues) :
          /\ t.result.issues[k].type = "color-contrast"
          /\ t.result.issues[k].wcagLevel = "AAA"

\* how many issues of the sequence have the severity
Severe(issues, sev) ==
  Cardinality({k \in 1..Len(issues) : issues[k].severity = sev})

\* the sequence with its entries k and k+1 exchanged
Swap(issues, k) ==
  [j \in 1..Len(issues) |->
     IF j = k THEN issues[k + 1] ELSE IF j = k + 1 THEN issues[k]
     ELSE issues[j]]

\* C14: for a sequence with e errors, w warnings and i infos calculateScore
\* returns max(0, 100 - 10e - 5w - i): 100 for the empty sequence, a number
\* of 0..100 always, and the same number when two neighbours of the
\* sequence are exchanged (hence for every permutation)
C14_ScoreFormula ==
  (unit.fn = "calculateScore" /\ unit.ret # NoResult) =>
    LET issues == unit.args[1]
        penalty == 10 * Severe(issues, "error")
                     + 5 * Severe(issues, "warning")
                     + Severe(issues, "info")
    IN /\ unit.ret.value = IF penalty > 100 THEN 0 ELSE 100 - penalty
       /\ unit.ret.value \in 0..100
       /\ issues = <<>> => unit.ret.value = 100
       /\ \A k \in 1..(Len(issues) - 1) :
            calculateScore(Swap(issues, k)) = unit.ret.value

\* a warning followed by ten errors: the penalty of 105 is scored 0
C14_Witness ==
  /\ unit.fn = "calculateScore" /\ unit.ret # NoResult
  /\ Len(unit.args[1]) = 11
  /\ unit.args[1][1].severity = "warning"
  /\ Severe(unit.args[1], "error") = 10
  /\ unit.ret.value = 0

\* C19: createAccessibilityIssue gives wcagReference "N/A" and no helpUrl
\* iff the table has no clause for (type, level); else wcagReference is the
\* clause and helpUrl the Understanding page of the clause; type, severity,
\* wcagLevel, message and description are the arguments
C19_IssueReference ==
  (unit.fn = "createAccessibilityIssue" /\ unit.ret # NoResult) =>
    LET issue == unit.ret.value
        clause == WCAG_REFERENCES[unit.args[1]][unit.args[3]]
    IN /\ (clause = null) <=>
            (issue.wcagReference = "N/A" /\ "helpUrl" \notin DOMAIN issue)
       /\ (clause = null) <=>
            (unit.args[1] = "color-contrast" /\ unit.args[3] = "A")
       /\ clause # null =>
            /\ issue.wcagReference = clause
            /\ "helpUrl" \in DOMAIN issue
            /\ issue.helpUrl =
                 "https://www.w3.org/WAI/WCAG21/Understanding/" \o clause
                   \o ".html"
       /\ issue.type = unit.args[1]
       /\ issue.severity = unit.args[2]
       /\ issue.wcagLevel = unit.args[3]
       /\ issue.message = unit.args[4]
       /\ issue.description = unit.args[5]

\* a color-contrast issue of level A, the pair without a clause
C19_Witness ==
  /\ unit.fn = "createAccessibilityIssue" /\ unit.ret # NoResult
  /\ unit.args[1] = "color-contrast" /\ unit.args[3] = "A"
  /\ unit.ret.value.wcagReference = "N/A"
  /\ DOMAIN unit.ret.value =
       {"type", "severity", "wcagLevel", "wcagReference", "message",
        "description"}

\* the run of the command went through: every URL's page check returned
Completed ==
  /\ cli.urls # <<>>
  /\ calls[1].pc = "done" /\ calls[1].result.kind = "report"
  /\ \A k \in 1..Len(cli.urls) : tasks[1][k].result.kind = "report"

\* C20: the command exits with 0 or 1; with 0 iff the run completed and no
\* page check found an issue; hence with 1 when an issue was found and when
\* a URL or an option was invalid or the run failed
C20_ExitCode ==
  cli.pc = "exited" =>
    /\ cli.exit \in {0, 1}
    /\ cli.exit = 0 <=>
         /\ Completed
         /\ \A k \in 1..Len(cli.urls) : tasks[1][k].result.issues = <<>>
    /\ (\E k \in 1..Len(cli.argv.urls) :
          ValidUrl(cli.argv.urls[k]).kind = "error") => cli.exit = 1
    /\ parseConfiguration(cli.argv.options).kind = "error" => cli.exit = 1

\* a run of the command on two clean pages, the second URL given without
\* a scheme: exit 0
C20_Witness ==
  /\ cli.pc = "exited" /\ cli.exit = 0
  /\ Len(cli.urls) = 2
  /\ cli.argv.urls[2] = <<"b.test">>
  /\ cli.urls[2] = <<"https://", "b.test">>
  /\ calls[1].kind = "checkUrls"
  /\ calls[1].result.summary.totalIssues = 0

\* C21: when the command exits after a run that completed, the report was
\* handed to every reporter named in --format, whether one URL was given or
\* several
C21_CliDispatchesReporters ==
  (cli.pc = "exited" /\ Completed) =>
    calls[1].reporters = Range(cli.argv.options.format)

\* C22: chunkArray(urls, c) with c >= 1 returns ceil(N / c) chunks for N
\* URLs; every chunk but the last has c URLs, the last has from 1 to c, and
\* the chunks joined in order are the input list
C22_ChunksPartition ==
  (unit.fn = "chunkArray" /\ unit.ret # NoResult) =>
    LET urls == unit.args[1]
        c == unit.args[2]
        N == Len(urls)
        chunks == unit.ret.value
    IN /\ c >= 1
       /\ Len(chunks) * c >= N
       /\ (Len(chunks) - 1) * c < N
       /\ \A b \in 1..(Len(chunks) - 1) : Len(chunks[b]) = c
       /\ Len(chunks) > 0 => Len(Last(chunks)) \in 1..c
       /\ Flatten(chunks) = urls

\* five URLs, the first three different, in chunks of two: two full chunks
\* and a last chunk of one
C22_Witness ==
  /\ unit.fn = "chunkArray" /\ unit.ret # NoResult
  /\ unit.args[2] = 2
  /\ Len(unit.args[1]) = 5
  /\ Cardinality({unit.args[1][k] : k \in 1..3}) = 3
  /\ Len(unit.ret.value) = 3
  /\ Len(unit.ret.value[3]) = 1

\* the pages of call c that were created and are not released yet
OpenPages(c) == {i \in TaskIds : tasks[c][i].page = "open"}

\* the page checks of call c that are under way
InFlight(c) == {i \in TaskIds : tasks[c][i].pc \notin {"none", "done"}}

\* C23: during a checkUrls run with config.concurrent = c >= 1 at most c
\* pages are open and at most c page checks are under way at any moment,
\* also once a page check of the batch has failed
C23_OpenPagesBounded ==
  \A c \in Calls :
    (calls[c].kind = "checkUrls" /\ config.concurrent >= 1) =>
      /\ Cardinality(OpenPages(c)) <= config.concurrent
      /\ Cardinality(InFlight(c)) <= config.concurrent

\* a run of three URLs with a limit of two: the navigation of the first
\* page failed, its page and the second are both open and the third URL
\* has not been started
C23_Witness ==
  \E c \in Calls :
    /\ calls[c].kind = "checkUrls" /\ config.concurrent = 2
    /\ Len(calls[c].urls) = 3
    /\ tasks[c][1].pc = "closing"
    /\ tasks[c][1].result.kind = "error"
    /\ OpenPages(c) = {1, 2}
    /\ tasks[c][3].pc = "none"

\* the issues the checker of a type produced in a page check, in the order
\* it produced them
Produced(t, type) ==
  IF type \in Range(t.invoked)
  THEN CheckerIssues(type, Outcomes(t.arrived)[type].found, t.cfg)
  ELSE <<>>

C25_StepsInOrder ==
  \A c \in Calls, i \in TaskIds :
    LET t == tasks[c][i]
    IN Orchestrated(c) =>
         /\ t.waits <= 1
         /\ t.pc \in {"newPage", "initScript", "goto"} =>
              (t.waits = 0 /\ t.invoked = <<>>)
         /\ t.pc = "stabilize" => (t.gotos = 1 /\ t.invoked = <<>>)
         /\ t.waits = 1 => t.gotos = 1
         /\ (t.pc = "checkers" \/ t.invoked # <<>>) =>
              (t.gotos = 1 /\ t.waits = 1)
         /\ (t.waits = 1 /\ t.invoked = <<>> /\ t.pc \in {"closing", "done"}) =>
              /\ t.result.kind = "error"
              /\ t.result.type = "Stabilization"
              /\ t.result.url = calls[c].urls[i]
              /\ "message" \notin DOMAIN t.result
              /\ \A cause \in {GotoError("open"), GotoError("closed")} :
                   t.result # NavigationError(calls[c].urls[i], cause)

\* a checkUrl that rejected because the helper library never initialized,
\* after a navigation that succeeded
C25_Witness ==
  /\ calls[1].kind = "checkUrl" /\ Returned(1)
  /\ calls[1].result = Rejection("Stabilization", 1)
  /\ tasks[1][1].gotos = 1 /\ tasks[1][1].waits = 1
  /\ tasks[1][1].invoked = <<>>
  /\ tasks[1][1].page = "closed"

\* C26: while the close() of a checkUrls run is under way no page check of
\* the run is: the teardown begins only when every page check of the run
\* has finished and released its page
C26_TeardownAfterPageChecks ==
  \A c \in Calls :
    (calls[c].kind = "checkUrls"
       /\ calls[c].pc \in {"closeContext", "closeBrowser"}) =>
      /\ InFlight(c) = {}
      /\ OpenPages(c) = {}

\* C27: while a call of the orchestrator is tearing the session down, no
\* other call has a page open or requested; and no createPage of a call
\* fails with the 'not initialized' error
C27_NoTeardownUnderOtherCalls ==
  /\ \A c \in Calls, d \in Calls :
       (c # d /\ Orchestrated(c) /\ Orchestrated(d)
          /\ calls[c].pc \in {"closeContext", "closeBrowser"}) =>
         /\ OpenPages(d) = {}
         /\ \A i \in TaskIds : tasks[d][i].pc # "newPage"
  /\ \A c \in Calls, i \in TaskIds :
       Orchestrated(c) => tasks[c][i].result # NotInitialized

\* C28: a checkUrls call that was made returns or rejects, whatever the URL
\* list and config.concurrent are, given that every operation it waits for
\* settles
C28_CheckUrlsTerminates ==
  (calls[1].kind = "checkUrls") ~> (calls[1].pc = "done")

\* C29: the configuration recorded in the report of a checkUrls run is the
\* one every page of the run was checked with and the one the URL list was
\* batched with, also when configure() was called during the run
C29_ConfigurationIsTheOneUsed ==
  \A c \in Calls :
    (calls[c].kind = "checkUrls" /\ calls[c].result.kind = "report") =>
      /\ \A i \in 1..Len(calls[c].urls) :
           tasks[c][i].cfg = calls[c].result.configuration
      /\ calls[c].chunks =
           chunkArray(calls[c].urls, calls[c].result.configuration.concurrent)

\* C30: an engine that is live is the one the manager holds: a launch that
\* failed after the engine was started leaves no engine behind that a later
\* launch overwrites the handle of, so that nothing could close it any more
C30_NoEngineOutlivesFailedLaunch ==
  \A k \in Engines : engine[k] = "live" => browser = k

====
